---- MODULE Spec2Model ----
(***************************************************************************)
(* A model of the dependency-tree builder of uasset_helper:                *)
(*   src/src/asset.rs            Asset, AssetError, AssetDirs              *)
(*   src/src/dependency_tree.rs  DepTree::build and the graph queries      *)
(*                                                                         *)
(* A path is the sequence of its components (std::path::Path compares by   *)
(* components); an absolute path starts with the component "/".  An import *)
(* reference is its first character and the segments that follow it, split *)
(* at '/' (asset.rs:146), so "/Game/Foo/Bar" is '/' with                   *)
(* <<"Game", "Foo", "Bar">> and "/Game//abs/Bar" has an empty segment.     *)
(***************************************************************************)
EXTENDS Naturals, Integers, Sequences, FiniteSets, TLC

VARIABLES
    fs,                   \* the file system: path -> "dir" | "file" | "badfile"
    imports,              \* asset file -> the import names its header lists
    asset_dirs,           \* the AssetDirs handed to build
    max_recurse_depth,    \* the depth bound handed to build
    pop_policy,           \* how the frontier is popped ("LIFO" is the code)
    pc,                   \* where build is
    NODE_ID_COUNTER,      \* the process-wide id counter
    root_node_id,
    nodes,                \* NodeID -> Asset
    node_connections,     \* NodeID -> sequence of child NodeIDs
    known_paths,
    failures,             \* the HashSet<AssetError> of build
    recurse_depths,       \* NodeID -> depth
    unresolved_nodes_ids, \* the frontier (a Vec used as a stack)
    cur_node_id,          \* the node being expanded
    unresolved_nodes,     \* assets constructed for cur_node_id, not yet inserted
    resolved_ids,         \* ids whose imports were resolved, in order
    constructed,          \* paths handed to Asset::new for a dependency, in order
    returned,             \* what the finished calls of build returned, in order
    resolutions,          \* the import names resolved by this build and their results, in order
    interleaved,          \* operations of another build on the counter since this build started
    pb,                   \* the Option<&mut ProgressBar> handed to build
    popped,               \* the ids popped from the frontier by this build, in order
    answer                \* the last query put to the returned graph and its answer

vars == << fs, imports, asset_dirs, max_recurse_depth, pop_policy, pc,
           NODE_ID_COUNTER, root_node_id, nodes, node_connections, known_paths,
           failures, recurse_depths, unresolved_nodes_ids, cur_node_id,
           unresolved_nodes, resolved_ids, constructed, returned, resolutions,
           interleaved, pb, popped, answer >>

-----------------------------------------------------------------------------
(* Bounds of the model *)

\* max_recurse_depth ranges over 0..MaxDepth
MaxDepth == 3

\* an import list of the freely chosen worlds holds at most MaxImports names
MaxImports == 2

\* build is called at most MaxBuilds times, one call after the other
MaxBuilds == 2

\* another build does at most MaxOtherSteps operations on the counter while
\* this one runs
MaxOtherSteps == 2

\* the default of --max-recurse-depth (main.rs:50)
DefaultMaxRecurseDepth == 64

-----------------------------------------------------------------------------
(* Option<T>: None is the empty sequence, Some(x) the one-element sequence *)

None == << >>

Some(x) == << x >>

IsSome(o) == o # << >>

Unwrap(o) == o[1]

Last(s) == s[Len(s)]

Front(s) == SubSeq(s, 1, Len(s) - 1)

RECURSIVE TakeWhileNot(_, _)
\* iter().take_while(|seg| *seg != name)
TakeWhileNot(s, name) ==
    IF s = << >> \/ Head(s) = name
    THEN << >>
    ELSE << Head(s) >> \o TakeWhileNot(Tail(s), name)

IsPrefix(p, q) == Len(p) <= Len(q) /\ SubSeq(q, 1, Len(p)) = p

Range(s) == { s[i] : i \in DOMAIN s }

-----------------------------------------------------------------------------
(* File names *)

Stems == { "R", "A", "B", "C", "H", "D", "M", "S", "T", "X", "Y", "Z", "E1" }

UASSET == ".uasset"

\* String::ends_with(".uasset"), of the last '/'-separated segment of a name
EndsWithUasset(s) == \E t \in Stems \cup { "" } : s = t \o UASSET

\* Path::extension() == Some("uasset"): a file name that is ".uasset" and no
\* more has no extension
HasUassetExtension(path) ==
    path # << >> /\ \E t \in Stems : Last(path) = t \o UASSET

-----------------------------------------------------------------------------
(* The file system *)

Exists(path) == path \in DOMAIN fs

IsFile(path) == Exists(path) /\ fs[path] \in { "file", "badfile" }

-----------------------------------------------------------------------------
(* AssetError and Asset (asset.rs) *)

AssetError(path, reason) == [ path |-> path, reason |-> reason ]

\* Result<PathBuf, AssetError> and Result<Asset, AssetError>, as one record shape
Ok(path, origin) == [ ok |-> TRUE, path |-> path, origin |-> origin, reason |-> "" ]

Err(path, reason) == [ ok |-> FALSE, path |-> path, origin |-> "", reason |-> reason ]

\* the Asset of an Ok result (the header is the file's, see imports)
AssetOf(r) == [ path |-> r.path, origin |-> r.origin ]

\* the AssetError of an Err result
ErrorOf(r) == AssetError(r.path, r.reason)

\* AssetDirs::is_engine_path: (is_engine, Option<(engine_path, engine_content_dir)>)
is_engine_path(asset_file_path) ==
    LET engine_path == TakeWhileNot(asset_file_path, "Engine") \o << "Engine" >>
        engine_content_dir == engine_path \o << "Content" >>
    IN  IF engine_path = asset_file_path \/ ~Exists(engine_path)
        THEN << FALSE, None >>
        ELSE IF Exists(engine_content_dir)
             THEN << TRUE, Some(<< engine_path, engine_content_dir >>) >>
             ELSE << FALSE, None >>

\* the origin computed by Asset::new
AssetOriginOf(asset_path) ==
    LET plugin_path == TakeWhileNot(asset_path, "Plugins") \o << "Plugins" >>
        is_plugin == plugin_path # asset_path /\ Exists(plugin_path)
        is_engine == is_engine_path(asset_path)[1]
    IN  CASE is_engine /\ is_plugin     -> "EnginePlugin"
          [] is_engine /\ ~is_plugin    -> "Engine"
          [] ~is_engine /\ is_plugin    -> "ProjectPlugin"
          [] OTHER                      -> "Project"

\* Asset::read_asset: the header of an existing file, or why it cannot be read
read_asset(asset_path) ==
    IF Exists(asset_path)
    THEN IF fs[asset_path] = "file"
         THEN Ok(asset_path, "")
         ELSE Err(asset_path, "Failed to read asset")
    ELSE Err(asset_path, "Could not find asset")

\* Asset::new
AssetNew(asset_path) ==
    IF ~IsFile(asset_path) \/ ~HasUassetExtension(asset_path)
    THEN Err(asset_path, "File does not exist or is not a .uasset file")
    ELSE IF ~read_asset(asset_path).ok
         THEN read_asset(asset_path)
         ELSE Ok(asset_path, AssetOriginOf(asset_path))

-----------------------------------------------------------------------------
(* AssetDirs (asset.rs) *)

\* AssetDirs::get_project_dirs: the segments before "Content", joined with "/"
\* and stripped of one leading '/'
get_project_dirs(asset_file_path) ==
    IF ~IsSome(asset_file_path)
    THEN << None, None >>
    ELSE LET taken == TakeWhileNot(Unwrap(asset_file_path), "Content")
             project_dir == IF taken = << "/" >> THEN << >> ELSE taken
         IN  << Some(project_dir), Some(project_dir \o << "Content" >>) >>

\* AssetDirs::get_engine_dirs
get_engine_dirs(engine_dir) ==
    IF ~IsSome(engine_dir)
    THEN << None, None >>
    ELSE LET dir == Unwrap(engine_dir)
             e == IF dir # << >> /\ Last(dir) = "Engine"
                  THEN dir
                  ELSE dir \o << "Engine" >>
         IN  << Some(e), Some(e \o << "Content" >>) >>

\* AssetDirs::get_dirs: (project_dir, content_dir, engine_dir, engine_content_dir)
get_dirs(asset_file_path, engine_path) ==
    LET first ==
            IF IsSome(asset_file_path)
            THEN LET r == is_engine_path(Unwrap(asset_file_path))
                 IN  IF r[1] /\ IsSome(r[2])
                     THEN << None, None, Some(Unwrap(r[2])[1]), Some(Unwrap(r[2])[2]) >>
                     ELSE IF ~r[1] /\ ~IsSome(r[2])
                          THEN << get_project_dirs(asset_file_path)[1],
                                  get_project_dirs(asset_file_path)[2], None, None >>
                          ELSE << None, None, None, None >>
            ELSE << None, None, None, None >>
    IN  IF IsSome(first[3]) /\ IsSome(first[4])
        THEN first
        ELSE << first[1], first[2],
                get_engine_dirs(engine_path)[1], get_engine_dirs(engine_path)[2] >>

\* AssetDirs::get_plugins_dirs
get_plugins_dirs(project_dir, engine_dir) ==
    (IF IsSome(project_dir) THEN << Unwrap(project_dir) \o << "Plugins" >> >> ELSE << >>)
    \o (IF IsSome(engine_dir) THEN << Unwrap(engine_dir) \o << "Plugins" >> >> ELSE << >>)

\* AssetDirs::new
AssetDirsNew(asset_file_path, engine_dir) ==
    LET d == get_dirs(asset_file_path, engine_dir)
    IN  [ asset_file_path    |-> asset_file_path,
          project_dir        |-> d[1],
          content_dir        |-> d[2],
          engine_dir         |-> d[3],
          engine_content_dir |-> d[4],
          plugins_dirs       |-> get_plugins_dirs(d[1], d[3]) ]

\* AssetDirs::update_plugin_dirs
update_plugin_dirs(self) ==
    [ self EXCEPT !.plugins_dirs = get_plugins_dirs(self.project_dir, self.engine_dir) ]

\* AssetDirs::update_asset_file
update_asset_file(self, asset_file_path) ==
    LET d == get_dirs(asset_file_path, self.engine_dir)
    IN  update_plugin_dirs([ self EXCEPT !.asset_file_path    = asset_file_path,
                                         !.project_dir        = d[1],
                                         !.content_dir        = d[2],
                                         !.engine_dir         = d[3],
                                         !.engine_content_dir = d[4] ])

\* update_engine_dir without its call of update_plugin_dirs
update_engine_dir_only(self, engine_dir) ==
    LET e == get_engine_dirs(engine_dir)
    IN  [ self EXCEPT !.engine_dir = e[1], !.engine_content_dir = e[2] ]

\* AssetDirs::update_engine_dir
update_engine_dir(self, engine_dir) ==
    LET e == get_engine_dirs(engine_dir)
    IN  update_plugin_dirs([ self EXCEPT !.engine_dir         = e[1],
                                         !.engine_content_dir = e[2] ])

-----------------------------------------------------------------------------
(* Resolving one import name (Asset::get_dependency_asset_paths) *)

\* the WalkDir depth limit of the plugin search
WalkMaxDepth == 10

IsNormalComponent(seg) == seg # "" /\ seg # "."

\* the components of a '/'-separated string given by its segments
Components(segs) == SelectSeq(segs, IsNormalComponent)

\* segments.join("/") starts with '/'
JoinsAbsolute(segs) == Len(segs) >= 2 /\ segs[1] = ""

\* base.join(segs.join("/")): an absolute right-hand side replaces the base
JoinPath(base, segs) ==
    IF JoinsAbsolute(segs)
    THEN << "/" >> \o Components(segs)
    ELSE base \o Components(segs)

\* An import name is a string: its first character (lead, "" for the empty
\* string) and the '/'-separated segments of what follows it.
Name(lead, segs) == [ lead |-> lead, segs |-> segs ]

\* stands for U+00E9, a character of two bytes in UTF-8
EAcute == "U+00E9"

\* the length in bytes of a character
Utf8Len(c) == IF c = EAcute THEN 2 ELSE 1

\* lines 141-145: the import name with ".uasset" appended unless it already
\* ends with it (the empty string becomes ".uasset": lead '.', then "uasset")
NormalizeDep(name) ==
    IF name.lead = ""
    THEN Name(".", << "uasset" >>)
    ELSE IF EndsWithUasset(Last(name.segs))
         THEN name
         ELSE Name(name.lead, Front(name.segs) \o << Last(name.segs) \o UASSET >>)

\* line 146, dep[1..]: byte index 1 is inside the first character, the slice
\* panics
SlicePanics(name) == Utf8Len(NormalizeDep(name).lead) > 1

\* the whole dep string as a path (AssetError::new(&dep, ..))
DepAsPath(dep) ==
    IF dep.lead = "/"
    THEN << "/" >> \o Components(dep.segs)
    ELSE Components(<< dep.lead \o Head(dep.segs) >> \o Tail(dep.segs))

\* the Content directories of the directories named root_dir found by the walk
CandidateDirs(root_dir, plugins_dirs) ==
    { entry \o << "Content" >> :
        entry \in { e \in DOMAIN fs :
                      /\ \E i \in DOMAIN plugins_dirs :
                            /\ IsPrefix(plugins_dirs[i], e)
                            /\ Len(e) - Len(plugins_dirs[i]) <= WalkMaxDepth
                      /\ e # << >>
                      /\ Last(e) = root_dir
                      /\ Exists(e \o << "Content" >>) } }

\* every result the resolution of one import name can have (the plugin branch
\* takes the first hit of a HashSet iteration, which is any hit)
ResolveDep(name, dirs) ==
    LET dep == NormalizeDep(name)
        segments == dep.segs
        root_folder == Head(segments)
        rest == Tail(segments)
    IN  CASE root_folder = "Game" ->
                LET path == JoinPath(Unwrap(dirs.content_dir), rest)
                IN  IF Exists(path)
                    THEN { Ok(path, "") }
                    ELSE { Err(path, "The asset doesn't exist in the game content directory") }
          [] root_folder = "Engine" ->
                IF IsSome(dirs.engine_content_dir)
                THEN LET path == JoinPath(Unwrap(dirs.engine_content_dir), rest)
                     IN  IF Exists(path)
                         THEN { Ok(path, "") }
                         ELSE { Err(path, "The asset doesn't exist in the engine content directory") }
                ELSE { Err(DepAsPath(dep), "Engine content directory is not set!") }
          [] root_folder = "Script" ->
                { Err(DepAsPath(dep), "Need to figure out what this folder is for") }
          [] OTHER ->
                LET hits == { JoinPath(c, rest) :
                                c \in CandidateDirs(root_folder, dirs.plugins_dirs) }
                                \cap DOMAIN fs
                IN  IF hits # { }
                    THEN { Ok(p, "") : p \in hits }
                    ELSE { Err(DepAsPath(dep), "Couldn't find the asset in any of the plugins directories") }

-----------------------------------------------------------------------------
(* Asset::get_dependency_asset_paths, over the whole import list *)

\* package_import_iter(): the import names of the asset's header
get_dependency_names(asset) ==
    IF asset.path \in DOMAIN imports THEN imports[asset.path] ELSE << >>

RECURSIVE FoldResolutions(_, _)
\* every sequence of per-name results the fold can produce
FoldResolutions(names, dirs) ==
    IF names = << >>
    THEN { << >> }
    ELSE { << r >> \o rs : r \in ResolveDep(Head(names), dirs),
                           rs \in FoldResolutions(Tail(names), dirs) }

IsOk(r) == r.ok

IsErr(r) == ~r.ok

PathsOf(rs) == [ i \in DOMAIN rs |-> rs[i].path ]

AssetsOf(rs) == [ i \in DOMAIN rs |-> AssetOf(rs[i]) ]

ErrorsOf(rs) == [ i \in DOMAIN rs |-> ErrorOf(rs[i]) ]

\* SplitVecContainer: the Ok values left, the Err values right, each in order
SplitVec(rs) == [ left |-> SelectSeq(rs, IsOk), right |-> SelectSeq(rs, IsErr) ]

\* lines 227-246: the paths of the Ok results and the errors of the Err
\* results, each in order
SplitResolutions(rs) ==
    [ left  |-> PathsOf(SplitVec(rs).left),
      right |-> ErrorsOf(SplitVec(rs).right) ]

\* every (paths, errors) pair get_dependency_asset_paths can return
get_dependency_asset_paths(asset, dirs) ==
    { SplitResolutions(rs) : rs \in FoldResolutions(get_dependency_names(asset), dirs) }

\* some import name of the asset makes line 146 panic
ImportPanics(asset) == \E name \in Range(get_dependency_names(asset)) : SlicePanics(name)

-----------------------------------------------------------------------------
(* HashSet<AssetError>: Eq compares the path alone, the derived Hash covers  *)
(* path and reason.  An insert of an error equal in path and reason finds    *)
(* the stored one.  An insert of an error equal in path only hashes          *)
(* elsewhere: the set keeps both, unless the two hashes happen to collide.   *)

HashSetInsert(set, e) ==
    IF e \in set
    THEN { set }
    ELSE IF \E x \in set : x.path = e.path
         THEN { set \cup { e }, set }
         ELSE { set \cup { e } }

RECURSIVE HashSetExtend(_, _)
\* every set failures.extend(errs) can leave
HashSetExtend(set, errs) ==
    IF errs = << >>
    THEN { set }
    ELSE UNION { HashSetExtend(s2, Tail(errs)) : s2 \in HashSetInsert(set, Head(errs)) }

-----------------------------------------------------------------------------
(* DepTree::build (dependency_tree.rs:39-183) *)

\* the index Vec::pop takes: the last one.  Another policy is not the code; it
\* is what the order-independence claim quantifies over.
PopChoices(frontier) ==
    IF pop_policy = "LIFO"
    THEN { i \in DOMAIN frontier : i = Len(frontier) }
    ELSE DOMAIN frontier

RemoveAt(s, i) == SubSeq(s, 1, i - 1) \o SubSeq(s, i + 1, Len(s))

\* the filter of lines 105-113
IsUnresolvedDep(dep_path) ==
    /\ dep_path \notin known_paths
    /\ ~\E fail \in failures : fail.path = dep_path

\* an off-by-one of line 84: a node at the bound is still expanded
AtMaxDepthStrict(id) == recurse_depths[id] > max_recurse_depth

\* line 84: the node is at the maximum depth level
AtMaxDepth(id) == recurse_depths[id] >= max_recurse_depth

\* line 160 without its + 1
ChildDepthOfParent(parent) == recurse_depths[parent]

\* line 160: the depth recorded for a child of parent
ChildDepth(parent) == recurse_depths[parent] + 1

\* line 66 with the depth of a child of the root
RootDepthOfChild == 0 + 1

\* line 66: recurse_depths.insert(root_node_id, 0)
RootDepth == 0

\* line 159 with the id after the one just made
PushChildNextId(conns, parent, id) ==
    (parent :> Append(IF parent \in DOMAIN conns THEN conns[parent] ELSE << >>, id + 1))
    @@ conns

\* line 158 run twice
PushIdTwice(frontier, id) == Append(Append(frontier, id), id)

\* line 158: unresolved_nodes_ids.push(id)
PushId(frontier, id) == Append(frontier, id)

\* line 159 with the new id as the key of the entry
EntryKeyOfChild(id) == id

\* line 159, entry(cur_node_id): the children list the new id is pushed to is
\* that of the node being expanded
EntryKey(id) == cur_node_id

\* line 159 with the id put in front of the list
PushChildFront(conns, parent, id) ==
    (parent :> << id >> \o (IF parent \in DOMAIN conns THEN conns[parent] ELSE << >>))
    @@ conns

\* line 159: node_connections.entry(cur_node_id).or_default().push(id)
PushChild(conns, parent, id) ==
    (parent :> Append(IF parent \in DOMAIN conns THEN conns[parent] ELSE << >>, id))
    @@ conns

\* line 44 left out: the counter stays where the last build left it
reset_id_skipped == NODE_ID_COUNTER

\* reset_id (lines 23-25): the value stored into the counter
reset_id == 0

\* new_id (lines 19-21) without the addition: the counter stays
fetch_none(counter) == counter

\* new_id (lines 19-21): fetch_add(1) returns the counter and leaves it one
\* higher; this is the counter after the call
fetch_add(counter) == counter + 1

\* ProgressBar::new(1) of build_with_pb (line 189): length 1, position 0
NewBar == [ length |-> 1, position |-> [ wrapped |-> FALSE, value |-> 0 ] ]

\* line 169 with the operands exchanged
FrontierMinusNodes(nodes_amount, frontier_len) ==
    IF frontier_len >= nodes_amount
    THEN [ wrapped |-> FALSE, value |-> frontier_len - nodes_amount ]
    ELSE [ wrapped |-> TRUE, value |-> nodes_amount - frontier_len ]

\* line 169: (nodes_amount - unresolved_nodes_ids.len()) as u64.  The
\* subtraction is of usize: below zero it wraps to 2^64 - value (wrapped), or
\* panics in a build with overflow checks
ProgressPosition(nodes_amount, frontier_len) ==
    IF nodes_amount >= frontier_len
    THEN [ wrapped |-> FALSE, value |-> nodes_amount - frontier_len ]
    ELSE [ wrapped |-> TRUE, value |-> frontier_len - nodes_amount ]

\* lines 165-170, the end of an iteration of the loop: with a progress bar its
\* length becomes the number of nodes and its position the number of nodes
\* less the length of the frontier
EndIteration(node_table, frontier) ==
    LET nodes_amount == Cardinality(DOMAIN node_table)
        position == ProgressPosition(nodes_amount, Len(frontier))
    IN  IF IsSome(pb)
        THEN \/ /\ pb' = Some([ length |-> nodes_amount, position |-> position ])
                /\ pc' = "loop"
             \/ /\ position.wrapped
                /\ pb' = Some([ length |-> nodes_amount, position |-> Unwrap(pb).position ])
                /\ pc' = "overflowed"
        ELSE /\ pb' = pb
             /\ pc' = "loop"

\* the DepTree build returns
DepTreeOf ==
    [ root_node_id      |-> root_node_id,
      nodes             |-> nodes,
      node_connections  |-> node_connections,
      failures          |-> failures,
      max_recurse_depth |-> max_recurse_depth,
      recurse_depths    |-> recurse_depths ]

\* lines 44-75: reset the counter, construct the root, seed the tables
Start ==
    /\ UNCHANGED << resolutions, pb, popped >>
    /\ pc = "idle"
    /\ UNCHANGED << answer, interleaved, fs, imports, asset_dirs, max_recurse_depth, pop_policy,
                    cur_node_id, unresolved_nodes, resolved_ids, constructed >>
    /\ IF ~IsSome(asset_dirs.asset_file_path)
       THEN \* asset_file_path.as_ref().unwrap() on None
            /\ pc' = "panicked"
            /\ NODE_ID_COUNTER' = reset_id
            /\ UNCHANGED << root_node_id, nodes, node_connections, known_paths,
                            failures, recurse_depths, unresolved_nodes_ids, returned >>
       ELSE LET root == AssetNew(Unwrap(asset_dirs.asset_file_path))
            IN  IF ~root.ok
                THEN /\ pc' = "failed"
                     /\ returned' = Append(returned, [ ok |-> FALSE, err |-> ErrorOf(root),
                                                       bar |-> IsSome(pb) ])
                     /\ NODE_ID_COUNTER' = reset_id
                     /\ UNCHANGED << root_node_id, nodes, node_connections, known_paths,
                                     failures, recurse_depths, unresolved_nodes_ids >>
                ELSE /\ pc' = "loop"
                     /\ root_node_id' = reset_id
                     /\ NODE_ID_COUNTER' = fetch_add(reset_id)
                     /\ nodes' = (reset_id :> AssetOf(root))
                     /\ known_paths' = { root.path }
                     /\ node_connections' = << >>
                     /\ failures' = { }
                     /\ recurse_depths' = (reset_id :> RootDepth)
                     /\ unresolved_nodes_ids' =
                            IF max_recurse_depth > 0 THEN << reset_id >> ELSE << >>
                     /\ UNCHANGED returned

\* lines 78-86: pop a node that is at the maximum depth: continue
SkipNode ==
    /\ UNCHANGED << resolutions, pb >>
    /\ pc = "loop"
    /\ \E i \in PopChoices(unresolved_nodes_ids) :
          /\ AtMaxDepth(unresolved_nodes_ids[i])
          /\ unresolved_nodes_ids' = RemoveAt(unresolved_nodes_ids, i)
          /\ popped' = Append(popped, unresolved_nodes_ids[i])
    /\ UNCHANGED << answer, interleaved, fs, imports, asset_dirs, max_recurse_depth, pop_policy, pc,
                    NODE_ID_COUNTER, root_node_id, nodes, node_connections,
                    known_paths, failures, recurse_depths, cur_node_id,
                    unresolved_nodes, resolved_ids, constructed, returned >>

\* line 99: content_dir.as_ref().unwrap() on None; asset.rs:146: dep[1..] on a
\* name whose first character is longer than one byte
ExpandPanics ==
    /\ UNCHANGED << resolutions, pb >>
    /\ pc = "loop"
    /\ \E i \in PopChoices(unresolved_nodes_ids) :
          /\ ~AtMaxDepth(unresolved_nodes_ids[i])
          /\ \/ ~IsSome(asset_dirs.content_dir)
             \/ ImportPanics(nodes[unresolved_nodes_ids[i]])
          /\ cur_node_id' = unresolved_nodes_ids[i]
          /\ unresolved_nodes_ids' = RemoveAt(unresolved_nodes_ids, i)
          /\ popped' = Append(popped, unresolved_nodes_ids[i])
    /\ pc' = "panicked"
    /\ UNCHANGED << answer, interleaved, fs, imports, asset_dirs, max_recurse_depth, pop_policy,
                    NODE_ID_COUNTER, root_node_id, nodes, node_connections,
                    known_paths, failures, recurse_depths, unresolved_nodes,
                    resolved_ids, constructed, returned >>

\* lines 78-149: pop a node below the maximum depth, resolve its imports, keep
\* the paths not seen yet, construct an Asset for each, record the failures and
\* the new known paths
ExpandNode ==
    /\ pc = "loop"
    /\ IsSome(asset_dirs.content_dir)
    /\ \E i \in PopChoices(unresolved_nodes_ids) :
          LET id == unresolved_nodes_ids[i]
              names == get_dependency_names(nodes[id])
          IN  /\ ~AtMaxDepth(id)
              /\ ~ImportPanics(nodes[id])
              /\ \E rs \in FoldResolutions(names, asset_dirs) :
                    LET got == SplitResolutions(rs)
                        unresolved_deps == SelectSeq(got.left, IsUnresolvedDep)
                        created == SplitVec([ k \in DOMAIN unresolved_deps |->
                                                AssetNew(unresolved_deps[k]) ])
                    IN  /\ \E f1 \in HashSetExtend(failures, got.right) :
                              failures' \in HashSetExtend(f1, ErrorsOf(created.right))
                        /\ known_paths' = known_paths \cup Range(PathsOf(created.left))
                        /\ unresolved_nodes' = AssetsOf(created.left)
                        /\ constructed' = constructed \o unresolved_deps
                        /\ resolutions' = resolutions \o
                               [ k \in DOMAIN rs |-> [ name |-> names[k], result |-> rs[k] ] ]
                        /\ IF created.left = << >>
                           THEN EndIteration(nodes, RemoveAt(unresolved_nodes_ids, i))
                           ELSE pc' = "insert" /\ pb' = pb
              /\ popped' = Append(popped, id)
              /\ cur_node_id' = id
              /\ resolved_ids' = Append(resolved_ids, id)
              /\ unresolved_nodes_ids' = RemoveAt(unresolved_nodes_ids, i)
    /\ UNCHANGED << answer, interleaved, fs, imports, asset_dirs, max_recurse_depth, pop_policy,
                    NODE_ID_COUNTER, root_node_id, nodes, node_connections,
                    recurse_depths, returned >>

\* lines 155-163, one element of nodes.extend: a new id, pushed onto the
\* frontier, appended to the current node's children, given its depth, inserted
InsertNode ==
    /\ UNCHANGED << resolutions, popped >>
    /\ pc = "insert"
    /\ LET id == NODE_ID_COUNTER
           asset == Head(unresolved_nodes)
       IN  /\ NODE_ID_COUNTER' = fetch_add(NODE_ID_COUNTER)
           /\ unresolved_nodes_ids' = PushId(unresolved_nodes_ids, id)
           /\ node_connections' = PushChild(node_connections, EntryKey(id), id)
           /\ recurse_depths' = (id :> ChildDepth(cur_node_id)) @@ recurse_depths
           /\ nodes' = (id :> asset) @@ nodes
           /\ IF Tail(unresolved_nodes) = << >>
              THEN EndIteration((id :> asset) @@ nodes, PushId(unresolved_nodes_ids, id))
              ELSE pc' = "insert" /\ pb' = pb
    /\ unresolved_nodes' = Tail(unresolved_nodes)
    /\ UNCHANGED << answer, interleaved, fs, imports, asset_dirs, max_recurse_depth, pop_policy,
                    root_node_id, known_paths, failures, cur_node_id,
                    resolved_ids, constructed, returned >>

\* lines 174-182: the frontier is empty (or the loop was skipped): Ok(Self {..})
Return ==
    /\ UNCHANGED << resolutions, pb, popped >>
    /\ pc = "loop"
    /\ unresolved_nodes_ids = << >>
    /\ pc' = "done"
    /\ returned' = Append(returned, [ ok |-> TRUE, tree |-> DepTreeOf,
                                      popped |-> popped, resolutions |-> resolutions,
                                      bar |-> IsSome(pb) ])
    /\ UNCHANGED << answer, interleaved, fs, imports, asset_dirs, max_recurse_depth, pop_policy,
                    NODE_ID_COUNTER, root_node_id, nodes, node_connections,
                    known_paths, failures, recurse_depths, unresolved_nodes_ids,
                    cur_node_id, unresolved_nodes, resolved_ids, constructed >>

-----------------------------------------------------------------------------
(* The inputs: one file system, the import lists of its assets, the          *)
(* directories configured and the depth bound                                *)

ProjectContent == << "/", "P", "Content" >>

EngineContent == << "/", "E", "Engine", "Content" >>

PluginContent == << "/", "P", "Plugins", "Plug", "Content" >>

\* <project content>/<stem>.uasset
GameFile(stem) == ProjectContent \o << stem \o UASSET >>

EngineFile(stem) == EngineContent \o << stem \o UASSET >>

PluginFile(stem) == PluginContent \o << stem \o UASSET >>

\* an asset at /Script/S.uasset, the path the failure of "/Script/S" carries
ScriptFile == << "/", "Script", "S" \o UASSET >>

\* a second plugin directory named Plug, below /P/Plugins/Other
OtherPluginContent == << "/", "P", "Plugins", "Other", "Plug", "Content" >>

OtherPluginFile(stem) == OtherPluginContent \o << stem \o UASSET >>

\* the directory k levels below the project's Plugins directory, along a chain
\* of directories named d
Chain(k) == << "/", "P", "Plugins" >> \o [ i \in 1..k |-> "d" ]

\* a plugin directory at the last level the walk visits, and one a level deeper
NearPlugin == Chain(WalkMaxDepth - 1) \o << "Near" >>

DeepPlugin == Chain(WalkMaxDepth) \o << "Deep" >>

NearPluginFile == NearPlugin \o << "Content", "Z" \o UASSET >>

DeepPluginFile == DeepPlugin \o << "Content", "Z" \o UASSET >>

\* a plugin of the engine
EnginePluginContent == << "/", "E", "Engine", "Plugins", "EPlug", "Content" >>

EnginePluginFile(stem) == EnginePluginContent \o << stem \o UASSET >>

\* a directory named Engine that holds no Content, and below it an engine
\* installation: a second directory named Engine, which holds Content
OuterEngine == << "/", "W", "Engine" >>

InnerEngineContent == OuterEngine \o << "UE", "Engine", "Content" >>

InnerEngineFile == InnerEngineContent \o << "Z" \o UASSET >>

Directories ==
    { << "/" >>, << "/", "P" >>, ProjectContent, GameFile("D"), << "/", "Script" >>,
      << "/", "P", "Plugins" >>, << "/", "P", "Plugins", "Plug" >>, PluginContent,
      << "/", "P", "Plugins", "Other" >>, << "/", "P", "Plugins", "Other", "Plug" >>,
      OtherPluginContent,
      << "/", "E" >>, << "/", "E", "Engine" >>, EngineContent,
      << "/", "E", "Engine", "Plugins" >>, << "/", "E", "Engine", "Plugins", "EPlug" >>,
      EnginePluginContent,
      << "/", "W" >>, OuterEngine, OuterEngine \o << "UE" >>,
      OuterEngine \o << "UE", "Engine" >>, InnerEngineContent }
    \cup { Chain(k) : k \in 1..WalkMaxDepth }
    \cup { NearPlugin, NearPlugin \o << "Content" >>,
           DeepPlugin, DeepPlugin \o << "Content" >> }

\* regular files whose header parses
AssetFiles ==
    { GameFile("R"), GameFile("A"), GameFile("B"), GameFile("C"),
      GameFile("X"), GameFile("Y"), PluginFile("X"), OtherPluginFile("X"),
      NearPluginFile, DeepPluginFile, EnginePluginFile("X"), InnerEngineFile,
      EngineFile("R"), EngineFile("E1"), ScriptFile }

\* a regular file that is no asset by its name
TextFile == ProjectContent \o << "N.txt" >>

\* regular files whose header does not parse
BadFiles == { GameFile("H") }

BaseFS ==
    [ p \in Directories \cup AssetFiles \cup BadFiles \cup { TextFile } |->
        IF p \in Directories THEN "dir"
        ELSE IF p \in BadFiles THEN "badfile" ELSE "file" ]

FileSystems == { BaseFS }

\* import names: "/Game/<stem>", "/Game/<stem>.uasset", "/Script/<stem>",
\* "/Game//Script/<stem>" (an empty segment), "/Engine/E1", "/Plug/X"
Game(stem) == Name("/", << "Game", stem >>)

GameU(stem) == Name("/", << "Game", stem \o UASSET >>)

Script(stem) == Name("/", << "Script", stem >>)

GameAbsScript(stem) == Name("/", << "Game", "", "Script", stem >>)

EngineE1 == Name("/", << "Engine", "E1" >>)

PlugX == Name("/", << "Plug", "X" >>)

PlugXU == Name("/", << "Plug", "X" \o UASSET >>)

PlugAbsScript(stem) == Name("/", << "Plug", "", "Script", stem >>)

NearZ == Name("/", << "Near", "Z" >>)

DeepZ == Name("/", << "Deep", "Z" >>)

\* a plugin name no directory carries
NoPlugX == Name("/", << "Y", "X" >>)

\* "/EPlug/X", an asset of the engine's plugin
EPlugX == Name("/", << "EPlug", "X" >>)

\* the empty string
EmptyName == Name("", << "" >>)

\* "Game/A", without the leading '/'
NoSlashGameA == Name("G", << "ame", "A" >>)

\* "/Game", a namespace and no more
GameOnly == Name("/", << "Game" >>)

\* "/Game/", a namespace and an empty remainder
GameSlash == Name("/", << "Game", "" >>)

\* U+00E9 followed by "Game/A"
EAcuteGameA == Name(EAcute, << "Game", "A" >>)

\* the names the freely chosen import lists draw from: two assets, the root
\* (a cycle), a missing file and a script name
FreeRefs == { Game("A"), Game("B"), Game("R"), Game("M"), Script("S") }

SeqsUpTo(S, n) == UNION { [ 1..k -> S ] : k \in 0..n }

\* the import lists of a world: those given, and none for every other asset
World(given) == [ p \in AssetFiles |-> IF p \in DOMAIN given THEN given[p] ELSE << >> ]

\* every choice of the import lists of R and A; B, named by them, is a leaf
FreeWorlds ==
    { World(GameFile("R") :> r @@ GameFile("A") :> a) :
        r \in SeqsUpTo(FreeRefs, MaxImports), a \in SeqsUpTo(FreeRefs, MaxImports) }

\* X is reached over A at depth 2 and over B, Y at depth 3; X imports a name
\* that fails
WorldTwoRoutes ==
    World(GameFile("R") :> << Game("A"), Game("B") >>
          @@ GameFile("A") :> << Game("X") >>
          @@ GameFile("B") :> << Game("Y") >>
          @@ GameFile("Y") :> << Game("X") >>
          @@ GameFile("X") :> << Script("T"), Game("C") >>)

\* A and B both import C, which imports the root
WorldDiamond ==
    World(GameFile("R") :> << Game("A"), Game("B") >>
          @@ GameFile("A") :> << Game("C") >>
          @@ GameFile("B") :> << Game("C") >>
          @@ GameFile("C") :> << Game("R"), Game("M") >>)

\* as WorldDiamond, and B names C twice, once with the suffix
WorldDiamondTwice ==
    World(GameFile("R") :> << Game("A"), Game("B") >>
          @@ GameFile("A") :> << Game("C") >>
          @@ GameFile("B") :> << Game("C"), GameU("C") >>)

\* every namespace: a plugin asset, an engine asset, a directory named like an
\* asset, a script name
WorldNamespaces ==
    World(GameFile("R") :> << PlugX, EngineE1, Game("D"), Script("S") >>
          @@ PluginFile("X") :> << Game("A"), PlugX >>
          @@ EngineFile("R") :> << EngineE1, Game("A") >>
          @@ EngineFile("E1") :> << Game("M") >>)

\* two names whose failures carry the same path with different reasons, and a
\* file whose header does not parse, named by two nodes
WorldSamePathFailures ==
    World(GameFile("R") :> << GameAbsScript("T"), Script("T"), Game("H"), Game("A") >>
          @@ GameFile("A") :> << Script("T"), Game("H"), GameU("A"), Game("B") >>
          @@ GameFile("B") :> << GameAbsScript("T") >>)

\* "/Game//Script/S" resolves to the asset /Script/S.uasset, and the failure of
\* "/Script/S" carries that path
WorldFailureHidesAsset ==
    World(GameFile("R") :> << Game("A"), Game("B") >>
          @@ GameFile("A") :> << Script("S") >>
          @@ GameFile("B") :> << GameAbsScript("S") >>)

\* as WorldFailureHidesAsset with the two import lists exchanged
WorldFailureHidesAssetLater ==
    World(GameFile("R") :> << Game("A"), Game("B") >>
          @@ GameFile("A") :> << GameAbsScript("S") >>
          @@ GameFile("B") :> << Script("S") >>)

\* plugin names: one that two plugin directories hold, named by two nodes,
\* with and without the suffix; one found at the last level of the walk; one a
\* level deeper; one no directory carries; a missing file, named with and
\* without the suffix
WorldPlugins ==
    World(GameFile("R") :> << PlugX, Game("A"), NearZ, DeepZ >>
          @@ GameFile("A") :> << PlugXU, NoPlugX, Game("M"), GameU("M") >>)

\* a plugin name whose remaining segments start with an empty one
WorldPluginAbsolute ==
    World(GameFile("R") :> << PlugAbsScript("S"), PlugX >>)

\* names that are no well-formed reference: the root lists the empty string, a
\* name without the leading '/', a namespace alone and one with an empty
\* remainder; A lists a name whose first character is two bytes long
WorldMalformed ==
    World(GameFile("R") :> << EmptyName, NoSlashGameA, GameOnly, GameSlash, Game("A") >>
          @@ GameFile("A") :> << Game("B"), EAcuteGameA >>)

\* an asset of each origin: of a project plugin, of the engine, of an engine
\* plugin, of the project
WorldOrigins ==
    World(GameFile("R") :> << PlugX, EngineE1, EPlugX, Game("A") >>)

NamedWorlds ==
    { WorldTwoRoutes, WorldDiamond, WorldDiamondTwice, WorldNamespaces,
      WorldSamePathFailures, WorldFailureHidesAsset, WorldFailureHidesAssetLater,
      WorldPlugins, WorldPluginAbsolute, WorldMalformed, WorldOrigins }

\* the asset file picked: none, a project asset, an engine asset, a missing
\* file, a file whose header does not parse, a directory, a file without the
\* .uasset extension, an asset below two directories named Engine
RootChoices ==
    { None, Some(GameFile("R")), Some(EngineFile("R")), Some(GameFile("M")),
      Some(GameFile("H")), Some(GameFile("D")), Some(TextFile),
      Some(InnerEngineFile) }

EngineChoices == { None, Some(<< "/", "E" >>) }

DepthChoices == 0..MaxDepth \cup { DefaultMaxRecurseDepth }

\* no query was put yet
NoAnswer == [ query |-> "none", id |-> 0, result |-> None ]

\* the state before build is called: the tables are build's locals, not yet made
Idle ==
    /\ pc = "idle"
    /\ NODE_ID_COUNTER = 0
    /\ root_node_id = 0
    /\ nodes = << >>
    /\ node_connections = << >>
    /\ known_paths = { }
    /\ failures = { }
    /\ recurse_depths = << >>
    /\ unresolved_nodes_ids = << >>
    /\ cur_node_id = 0
    /\ unresolved_nodes = << >>
    /\ resolved_ids = << >>
    /\ constructed = << >>
    /\ returned = << >>
    /\ resolutions = << >>
    /\ interleaved = 0
    /\ pb = Some(NewBar)
    /\ popped = << >>
    /\ answer = NoAnswer

Init ==
    /\ fs \in FileSystems
    /\ max_recurse_depth \in DepthChoices
    /\ pop_policy = "LIFO"
    /\ \/ /\ imports \in FreeWorlds
          /\ asset_dirs = AssetDirsNew(Some(GameFile("R")), None)
       \/ /\ imports \in NamedWorlds
          /\ \E a \in RootChoices, e \in EngineChoices :
                asset_dirs = AssetDirsNew(a, e)
    /\ Idle

\* the caller calls build again (app.rs:319-331, the Generate button): the
\* locals of the finished call are gone, the process-wide counter stays
BuildAgain ==
    /\ pc \in { "done", "failed" }
    /\ Len(returned) < MaxBuilds
    /\ pc' = "idle"
    /\ pop_policy' \in { "LIFO", "ANY" }
    /\ root_node_id' = 0
    /\ nodes' = << >>
    /\ node_connections' = << >>
    /\ known_paths' = { }
    /\ failures' = { }
    /\ recurse_depths' = << >>
    /\ unresolved_nodes_ids' = << >>
    /\ cur_node_id' = 0
    /\ unresolved_nodes' = << >>
    /\ resolved_ids' = << >>
    /\ constructed' = << >>
    /\ resolutions' = << >>
    /\ pb' = Some(NewBar)
    /\ popped' = << >>
    /\ UNCHANGED << answer, interleaved, fs, imports, asset_dirs, max_recurse_depth, NODE_ID_COUNTER, returned >>

Next ==
    \/ Start
    \/ SkipNode
    \/ ExpandPanics
    \/ ExpandNode
    \/ InsertNode
    \/ Return

Spec == Init /\ [][Next]_vars

\* the loop is sequential code: a step that can be taken is taken
FairSpec == Spec /\ WF_vars(Next)

\* a second build of the same inputs follows the first, its frontier popped in
\* any order
NextOrder == Next \/ BuildAgain

SpecOrder == Init /\ [][NextOrder]_vars

\* the asset files the file picker hands over between two builds: a readable
\* asset and a missing file
PickChoices == { Some(GameFile("R")), Some(GameFile("M")) }

\* GuiAppMessage::SetAssetPath (app.rs:312-314) after a build has ended:
\* AssetDirs::update_asset_file recomputes the directories from the new path
\* and the engine directory it holds
SetAssetPath ==
    /\ pc \in { "done", "failed" }
    /\ Len(returned) < MaxBuilds
    /\ \E path \in PickChoices :
          asset_dirs' = AssetDirsNew(path, asset_dirs.engine_dir)
    /\ UNCHANGED << fs, imports, max_recurse_depth, pop_policy, pc, NODE_ID_COUNTER,
                    root_node_id, nodes, node_connections, known_paths, failures,
                    recurse_depths, unresolved_nodes_ids, cur_node_id,
                    unresolved_nodes, resolved_ids, constructed, returned,
                    resolutions, interleaved, pb, popped, answer >>

\* DepTreePageMsg::GenerateDependencyTree (app.rs:319-331) after a build has
\* ended: build is called again, its frontier a stack as in the code
Generate == BuildAgain /\ pop_policy' = "LIFO"

\* the GUI started on one of the named worlds
InitNamed ==
    /\ fs \in FileSystems
    /\ max_recurse_depth \in DepthChoices
    /\ pop_policy = "LIFO"
    /\ imports \in NamedWorlds
    /\ \E a \in RootChoices, e \in EngineChoices :
          asset_dirs = AssetDirsNew(a, e)
    /\ Idle

\* builds one after the other, the asset file picked anew in between
NextSequential == Next \/ SetAssetPath \/ Generate

SpecSequential == InitNamed /\ [][NextSequential]_vars

\* another call of build, not serialized with this one, reaches its reset_id
\* (line 44) while this build is in its loop: the counter is process-wide
OtherResetId ==
    /\ pc \in { "loop", "insert" }
    /\ interleaved < MaxOtherSteps
    /\ NODE_ID_COUNTER' = reset_id
    /\ interleaved' = interleaved + 1
    /\ UNCHANGED << fs, imports, asset_dirs, max_recurse_depth, pop_policy, pc,
                    root_node_id, nodes, node_connections, known_paths, failures,
                    recurse_depths, unresolved_nodes_ids, cur_node_id,
                    unresolved_nodes, resolved_ids, constructed, returned,
                    resolutions, pb, popped, answer >>

\* the other call of build takes an id for one of its nodes (lines 60, 156)
OtherNewId ==
    /\ pc \in { "loop", "insert" }
    /\ interleaved < MaxOtherSteps
    /\ NODE_ID_COUNTER' = fetch_add(NODE_ID_COUNTER)
    /\ interleaved' = interleaved + 1
    /\ UNCHANGED << fs, imports, asset_dirs, max_recurse_depth, pop_policy, pc,
                    root_node_id, nodes, node_connections, known_paths, failures,
                    recurse_depths, unresolved_nodes_ids, cur_node_id,
                    unresolved_nodes, resolved_ids, constructed, returned,
                    resolutions, pb, popped, answer >>

\* one build, and the counter operations of another interleaved with its steps
NextInterleaved == Next \/ OtherResetId \/ OtherNewId

SpecInterleaved == InitNamed /\ [][NextInterleaved]_vars

\* build is called again on the same inputs with pb = None (build is public,
\* lines 39-43; build_with_pb is the caller that hands over a bar)
BuildWithoutBar ==
    /\ pc \in { "done", "failed" }
    /\ Len(returned) < MaxBuilds
    /\ pc' = "idle"
    /\ pb' = None
    /\ root_node_id' = 0
    /\ nodes' = << >>
    /\ node_connections' = << >>
    /\ known_paths' = { }
    /\ failures' = { }
    /\ recurse_depths' = << >>
    /\ unresolved_nodes_ids' = << >>
    /\ cur_node_id' = 0
    /\ unresolved_nodes' = << >>
    /\ resolved_ids' = << >>
    /\ constructed' = << >>
    /\ resolutions' = << >>
    /\ popped' = << >>
    /\ UNCHANGED << answer, interleaved, fs, imports, asset_dirs, max_recurse_depth, pop_policy,
                    NODE_ID_COUNTER, returned >>

\* a build with a progress bar, then builds of the same inputs without one
NextProgress == Next \/ BuildWithoutBar

SpecProgress == InitNamed /\ [][NextProgress]_vars

-----------------------------------------------------------------------------
(* The queries of a returned DepTree (dependency_tree.rs:201-237) *)

get_node(tree, id) ==
    IF id \in DOMAIN tree.nodes THEN Some(tree.nodes[id]) ELSE None

get_node_connections(tree, id) ==
    IF id \in DOMAIN tree.node_connections THEN tree.node_connections[id] ELSE << >>

\* line 224 with a depth of 0 for an id that has none
get_recurse_depth_or_zero(tree, id) ==
    IF id \in DOMAIN tree.recurse_depths THEN Some(tree.recurse_depths[id]) ELSE Some(0)

get_recurse_depth(tree, id) ==
    IF id \in DOMAIN tree.recurse_depths THEN Some(tree.recurse_depths[id]) ELSE None

\* lines 228-231 with the key tested where the children are: an id that has
\* children is its own parent
get_parent_node_id_by_key(tree, id) ==
    IF id \in DOMAIN tree.node_connections THEN { Some(id) } ELSE { None }

\* every answer the scan of the HashMap can give: the first entry met whose
\* children contain id, in an iteration order that is not fixed
get_parent_node_id(tree, id) ==
    LET parents == { p \in DOMAIN tree.node_connections :
                       id \in Range(tree.node_connections[p]) }
    IN  IF parents = { } THEN { None } ELSE { Some(p) : p \in parents }

\* the ids the queries are put for: those of the nodes and two that no node has
QueryIds(tree) ==
    DOMAIN tree.nodes \cup { Cardinality(DOMAIN tree.nodes), Cardinality(DOMAIN tree.nodes) + 1 }

\* every answer a query can give
Answers(tree, query, id) ==
    CASE query = "get_node"             -> { get_node(tree, id) }
      [] query = "get_node_connections" -> { get_node_connections(tree, id) }
      [] query = "get_recurse_depth"    -> { get_recurse_depth(tree, id) }
      [] query = "get_parent_node_id"   -> get_parent_node_id(tree, id)

Queries == { "get_node", "get_node_connections", "get_recurse_depth", "get_parent_node_id" }

\* a query on the graph the last call of build returned; the methods take
\* &self (lines 202, 219, 223, 227)
Query ==
    /\ pc = "done"
    /\ \E query \in Queries, id \in QueryIds(returned[Len(returned)].tree) :
          \E result \in Answers(returned[Len(returned)].tree, query, id) :
              answer' = [ query |-> query, id |-> id, result |-> result ]
    /\ UNCHANGED << fs, imports, asset_dirs, max_recurse_depth, pop_policy, pc,
                    NODE_ID_COUNTER, root_node_id, nodes, node_connections,
                    known_paths, failures, recurse_depths, unresolved_nodes_ids,
                    cur_node_id, unresolved_nodes, resolved_ids, constructed,
                    returned, resolutions, interleaved, pb, popped >>

\* a build, and queries on the graph it returned
NextQueries == Next \/ Query

SpecQueries == InitNamed /\ [][NextQueries]_vars

\* the engine directories the folder picker hands over: none, the directory
\* that holds Engine, the Engine directory itself, a directory without one
EngineDirChoices ==
    { None, Some(<< "/", "E" >>), Some(<< "/", "E", "Engine" >>), Some(<< "/", "W" >>) }

\* no call of build is running
Settled == pc \in { "idle", "done", "failed" }

\* GuiAppMessage::SetAssetPath (app.rs:312-314) with any asset file
UpdateAssetFile ==
    /\ Settled
    /\ \E path \in RootChoices :
          asset_dirs' = update_asset_file(asset_dirs, path)
    /\ UNCHANGED << fs, imports, max_recurse_depth, pop_policy, pc, NODE_ID_COUNTER,
                    root_node_id, nodes, node_connections, known_paths, failures,
                    recurse_depths, unresolved_nodes_ids, cur_node_id,
                    unresolved_nodes, resolved_ids, constructed, returned,
                    resolutions, interleaved, pb, popped, answer >>

\* GuiAppMessage::SetEnginePath (app.rs:315-317)
UpdateEngineDir ==
    /\ Settled
    /\ \E dir \in EngineDirChoices :
          asset_dirs' = update_engine_dir(asset_dirs, dir)
    /\ UNCHANGED << fs, imports, max_recurse_depth, pop_policy, pc, NODE_ID_COUNTER,
                    root_node_id, nodes, node_connections, known_paths, failures,
                    recurse_depths, unresolved_nodes_ids, cur_node_id,
                    unresolved_nodes, resolved_ids, constructed, returned,
                    resolutions, interleaved, pb, popped, answer >>

\* the directories set anew before and after a build
NextDirs == Next \/ UpdateAssetFile \/ UpdateEngineDir

SpecDirs == InitNamed /\ [][NextDirs]_vars

-----------------------------------------------------------------------------
(* What the claims speak of *)

\* the graphs returned so far
Graphs == { returned[k].tree : k \in { j \in DOMAIN returned : returned[j].ok } }

\* build has returned a graph and was not called again
Returned == pc = "done"

\* the graph the last call returned
Tree == returned[Len(returned)].tree

NodePaths(tree) == { tree.nodes[id].path : id \in DOMAIN tree.nodes }

FailurePaths(tree) == { f.path : f \in tree.failures }

\* Asset::new succeeds on the configured root asset
RootReadable ==
    /\ IsSome(asset_dirs.asset_file_path)
    /\ AssetNew(Unwrap(asset_dirs.asset_file_path)).ok

-----------------------------------------------------------------------------
(* C1: after build returns, no two entries of the node table have equal     *)
(* path, also when one import list holds two references that resolve to the *)
(* same file.                                                               *)

C1_NoDuplicateNodePaths ==
    Returned =>
        \A i, j \in DOMAIN Tree.nodes :
            Tree.nodes[i].path = Tree.nodes[j].path => i = j

-----------------------------------------------------------------------------
(* C2: in every state of a build and in the returned graph, no node whose    *)
(* recorded depth is >= max_recurse_depth has a child in node_connections,   *)
(* and a node's imports are resolved only if its recorded depth is strictly  *)
(* less than max_recurse_depth.                                              *)

C2_DepthBoundRespected ==
    /\ \A id \in DOMAIN recurse_depths :
          recurse_depths[id] >= max_recurse_depth =>
              /\ id \notin DOMAIN node_connections
              /\ id \notin Range(resolved_ids)
    /\ \A tree \in Graphs :
          \A id \in DOMAIN tree.recurse_depths :
              tree.recurse_depths[id] >= tree.max_recurse_depth =>
                  get_node_connections(tree, id) = << >>

\* a returned graph holds a node at the depth bound whose file lists imports
C2_Witness ==
    /\ Returned
    /\ max_recurse_depth > 0
    /\ \E id \in DOMAIN Tree.nodes :
          /\ Tree.recurse_depths[id] = max_recurse_depth
          /\ get_dependency_names(Tree.nodes[id]) # << >>
          /\ get_node_connections(Tree, id) = << >>

-----------------------------------------------------------------------------
(* C3: in the returned graph the root's recorded depth is 0 and, for every   *)
(* non-root node n, get_recurse_depth(n) =                                   *)
(* get_recurse_depth(get_parent_node_id(n)) + 1.                             *)

C3_DepthIsParentDepthPlusOne ==
    Returned =>
        /\ get_recurse_depth(Tree, Tree.root_node_id) = Some(0)
        /\ \A n \in DOMAIN Tree.nodes \ { Tree.root_node_id } :
              \A parent \in get_parent_node_id(Tree, n) :
                  /\ IsSome(parent)
                  /\ IsSome(get_recurse_depth(Tree, Unwrap(parent)))
                  /\ get_recurse_depth(Tree, n) =
                         Some(Unwrap(get_recurse_depth(Tree, Unwrap(parent))) + 1)

\* a returned graph holds a node two edges below the root
C3_Witness ==
    /\ Returned
    /\ \E n \in DOMAIN Tree.nodes :
          /\ Tree.recurse_depths[n] = 2
          /\ \E parent \in get_parent_node_id(Tree, n) :
                /\ IsSome(parent)
                /\ Unwrap(parent) # Tree.root_node_id

-----------------------------------------------------------------------------
(* C4: for every finite set of assets, every reference structure among them  *)
(* (self-references and cycles included) and every max_recurse_depth, the    *)
(* loop of build eventually empties the frontier and build returns.          *)

C4_LoopEndsAndBuildReturns == (pc = "loop") ~> (pc = "done")

\* what holds of the loop: it ends, by returning the graph or by the panic of
\* line 99
C4_LoopEnds == (pc = "loop") ~> (pc \in { "done", "panicked" })

-----------------------------------------------------------------------------
(* C5: the failure to construct the root node is the only condition under    *)
(* which build returns no graph: with a readable root asset, whatever the    *)
(* directories (the project content directory is unset when the root asset   *)
(* lies in the engine directory) and whatever max_recurse_depth, build       *)
(* returns Ok with a graph.                                                  *)

C5_ReadableRootReturnsGraph ==
    RootReadable => pc \in { "idle", "loop", "insert", "done" }

-----------------------------------------------------------------------------
(* C6: if the root asset is missing, is no regular file, lacks the .uasset   *)
(* extension or has an unparsable header, or if no root asset path is        *)
(* configured, build returns one Err(AssetError) to its caller and no        *)
(* graph; it does not abort the process.                                     *)

C6_UnreadableRootReturnsErr ==
    (~RootReadable /\ pc # "idle") =>
        /\ pc = "failed"
        /\ Len(returned) = 1
        /\ ~returned[1].ok

-----------------------------------------------------------------------------
(* C7: with a readable root, some but not all references unresolvable and    *)
(* max_recurse_depth larger than the number of assets, build returns Ok, the *)
(* set of node paths is the root plus every asset reachable from it through  *)
(* references that resolve and construct, and every unresolvable reference   *)
(* of an expanded node has a record in failures.                             *)

\* the reference resolves to a path (a Game reference cannot without a project
\* content directory)
Resolvable(name) ==
    IF Head(NormalizeDep(name).segs) = "Game" /\ ~IsSome(asset_dirs.content_dir)
    THEN FALSE
    ELSE \E r \in ResolveDep(name, asset_dirs) : r.ok

\* the assets the imports of the asset at path resolve to and construct as
Targets(path) ==
    { r.path : r \in { q \in UNION { IF Resolvable(name)
                                     THEN ResolveDep(name, asset_dirs)
                                     ELSE { } :
                                     name \in Range(get_dependency_names([ path |-> path ])) } :
                         q.ok /\ AssetNew(q.path).ok } }

RECURSIVE Closure(_)
\* the least set of paths that holds seen and the targets of its members
Closure(seen) ==
    LET next == seen \cup UNION { Targets(p) : p \in seen }
    IN  IF next = seen THEN seen ELSE Closure(next)

Reachable == Closure({ Unwrap(asset_dirs.asset_file_path) })

\* the import names of the assets reachable from the root
ReachableRefs == UNION { Range(get_dependency_names([ path |-> p ])) : p \in Reachable }

SomeButNotAllUnresolvable ==
    /\ \E name \in ReachableRefs : Resolvable(name)
    /\ \E name \in ReachableRefs : ~Resolvable(name)

C7_PartialFailureReturnsGraph ==
    ( /\ RootReadable
      /\ max_recurse_depth > Cardinality(AssetFiles)
      /\ SomeButNotAllUnresolvable
      /\ pc \in { "done", "failed", "panicked" } )
    => /\ pc = "done"
       /\ NodePaths(Tree) = Reachable
       /\ \A id \in Range(resolved_ids) :
             \A name \in Range(get_dependency_names(Tree.nodes[id])) :
                 ~Resolvable(name) =>
                     \A r \in ResolveDep(name, asset_dirs) : r.path \in FailurePaths(Tree)

-----------------------------------------------------------------------------
(* C8: the returned failures list holds no two entries with equal path,      *)
(* entries being compared by path alone, also when several nodes import the  *)
(* same unresolved reference.                                                *)

C8_FailuresUniqueByPath ==
    Returned =>
        \A f, g \in Tree.failures : f.path = g.path => f = g

-----------------------------------------------------------------------------
(* C9: the result does not depend on the order in which frontier entries are *)
(* popped: for the same inputs, any pop order yields the same set of node    *)
(* paths and the same set of failure paths.                                  *)

SameResult(t1, t2) ==
    /\ NodePaths(t1) = NodePaths(t2)
    /\ FailurePaths(t1) = FailurePaths(t2)

C9_AnyPopOrderSameResult ==
    \A t1, t2 \in Graphs : SameResult(t1, t2)

\* no node of the graph was left unexpanded at the depth bound
BelowDepthBound(tree) ==
    \A id \in DOMAIN tree.nodes : tree.recurse_depths[id] < tree.max_recurse_depth

\* no failure record carries the path of an asset that constructs
NoFailureAtAssetPath(tree) ==
    \A fail \in tree.failures : ~AssetNew(fail.path).ok

\* no import name of a node of the graph is held by more than one plugin
\* directory: its resolution has one result
OneResultEach(tree) ==
    IsSome(asset_dirs.content_dir) =>
        \A id \in DOMAIN tree.nodes :
            \A name \in Range(get_dependency_names(tree.nodes[id])) :
                Cardinality(ResolveDep(name, asset_dirs)) = 1

\* what holds of C9: any two pop orders yield the same set of node paths and
\* the same set of failure paths when in both graphs every node's depth is
\* below max_recurse_depth, no failure has the path of a readable asset and
\* every import name has one result
C9_SameResultBelowDepthBound ==
    \A t1, t2 \in Graphs :
        ( /\ BelowDepthBound(t1) /\ BelowDepthBound(t2)
          /\ NoFailureAtAssetPath(t1) /\ NoFailureAtAssetPath(t2)
          /\ OneResultEach(t1) /\ OneResultEach(t2) )
        => SameResult(t1, t2)

\* two builds of the same inputs popped in different orders: no path has two
\* nodes, the graphs differ in their edges, a failure was recorded, and both
\* graphs are below the bound
C9_Witness ==
    /\ Len(returned) = 2
    /\ pop_policy = "ANY"
    /\ returned[1].ok /\ returned[2].ok
    /\ returned[1].tree.node_connections # returned[2].tree.node_connections
    /\ Cardinality(DOMAIN returned[1].tree.nodes) > 3
    /\ Cardinality(NodePaths(returned[1].tree)) = Cardinality(DOMAIN returned[1].tree.nodes)
    /\ Cardinality(NodePaths(returned[2].tree)) = Cardinality(DOMAIN returned[2].tree.nodes)
    /\ returned[1].tree.failures # { }
    /\ BelowDepthBound(returned[1].tree) /\ BelowDepthBound(returned[2].tree)
    /\ NoFailureAtAssetPath(returned[1].tree) /\ NoFailureAtAssetPath(returned[2].tree)

-----------------------------------------------------------------------------
(* C10: if two expanded nodes of different assets A and B both reference the *)
(* same third asset C, C is in the node table exactly once, it is a child of *)
(* whichever of the nodes referencing it was expanded first and is in no     *)
(* other children list, and the later reference adds neither an edge nor a   *)
(* failure.                                                                  *)

\* the node ids of the tree whose path is path
IdsOfPath(tree, path) == { id \in DOMAIN tree.nodes : tree.nodes[id].path = path }

\* the position of id in the order of expansion
ExpandedAt(id) == CHOOSE i \in DOMAIN resolved_ids : resolved_ids[i] = id

\* the expanded nodes that reference path
Referencing(path) ==
    { id \in Range(resolved_ids) : path \in Targets(nodes[id].path) }

C10_SharedDependencyOnce ==
    Returned =>
        \A a, b \in Range(resolved_ids) :
            nodes[a].path # nodes[b].path =>
                \A c \in (Targets(nodes[a].path) \cap Targets(nodes[b].path))
                            \ { nodes[a].path, nodes[b].path, nodes[root_node_id].path } :
                    /\ Cardinality(IdsOfPath(Tree, c)) = 1
                    /\ c \notin FailurePaths(Tree)
                    /\ LET first == CHOOSE id \in Referencing(c) :
                                        \A other \in Referencing(c) :
                                            ExpandedAt(id) <= ExpandedAt(other)
                       IN  \A id \in DOMAIN Tree.node_connections :
                               \A i \in DOMAIN Tree.node_connections[id] :
                                   Tree.nodes[Tree.node_connections[id][i]].path = c
                                       => id = first

-----------------------------------------------------------------------------
(* C11: in every state of a build and in every returned graph, every id in a *)
(* children list of node_connections is a key of the node table, every key   *)
(* of node_connections is a key of the node table, and the keys of           *)
(* recurse_depths are exactly the keys of the node table.                    *)

TablesConsistent(node_table, connections, depths) ==
    /\ \A parent \in DOMAIN connections :
          /\ parent \in DOMAIN node_table
          /\ \A i \in DOMAIN connections[parent] :
                connections[parent][i] \in DOMAIN node_table
    /\ DOMAIN depths = DOMAIN node_table

C11_TableKeysConsistent ==
    /\ TablesConsistent(nodes, node_connections, recurse_depths)
    /\ \A tree \in Graphs :
          TablesConsistent(tree.nodes, tree.node_connections, tree.recurse_depths)

\* in the middle of nodes.extend, two nodes already have children
C11_Witness ==
    /\ pc = "insert"
    /\ Cardinality(DOMAIN node_connections) >= 2
    /\ Cardinality(DOMAIN nodes) >= 4

-----------------------------------------------------------------------------
(* C12: with max_recurse_depth = 0 and a readable root, whatever the root    *)
(* imports, build returns a graph with exactly one node (the root, at depth  *)
(* 0), an empty adjacency table and an empty failures list; no import of the *)
(* root is resolved.                                                         *)

C12_DepthZeroRootOnly ==
    (max_recurse_depth = 0 /\ RootReadable /\ pc # "idle") =>
        /\ pc \in { "loop", "done" }
        /\ resolutions = << >>
        /\ resolved_ids = << >>
        /\ pc = "done" =>
              /\ DOMAIN Tree.nodes = { Tree.root_node_id }
              /\ Tree.nodes[Tree.root_node_id].path = Unwrap(asset_dirs.asset_file_path)
              /\ get_recurse_depth(Tree, Tree.root_node_id) = Some(0)
              /\ Tree.node_connections = << >>
              /\ Tree.failures = { }

\* build returned for a root that lists imports, with max_recurse_depth = 0
C12_Witness ==
    /\ Returned
    /\ max_recurse_depth = 0
    /\ Len(get_dependency_names(Tree.nodes[Tree.root_node_id])) >= 2

-----------------------------------------------------------------------------
(* C13: resolving one reference by namespace: with Game the result is the    *)
(* path project-content-dir + remaining segments if that path exists and a   *)
(* failure otherwise; with Engine and a configured engine content directory  *)
(* the same rule holds against that directory; with Engine and no engine     *)
(* content directory the result is always a failure; with Script the result  *)
(* is always a failure, whatever the file system holds.                      *)

\* segment 0 of a reference
Namespace(name) == Head(NormalizeDep(name).segs)

\* the segments after the namespace
Remaining(name) == Tail(NormalizeDep(name).segs)

\* the directory followed by the remaining segments
Below(dir, name) == dir \o Components(Remaining(name))

\* the result is the path below dir if that path exists and a failure otherwise
ResolvedBelow(dir, name, result) ==
    /\ result.ok = Exists(Below(dir, name))
    /\ result.ok => result.path = Below(dir, name)

NamespaceRule(name, result) ==
    /\ Namespace(name) = "Game" =>
          ResolvedBelow(Unwrap(asset_dirs.content_dir), name, result)
    /\ (Namespace(name) = "Engine" /\ IsSome(asset_dirs.engine_content_dir)) =>
          ResolvedBelow(Unwrap(asset_dirs.engine_content_dir), name, result)
    /\ (Namespace(name) = "Engine" /\ ~IsSome(asset_dirs.engine_content_dir)) =>
          ~result.ok
    /\ Namespace(name) = "Script" => ~result.ok

C13_NamespaceRules ==
    \A k \in DOMAIN resolutions :
        NamespaceRule(resolutions[k].name, resolutions[k].result)

\* what holds of C13: the rules hold of every reference whose remaining
\* segments do not start with an empty one
C13_NamespaceRulesOfRelativeRemainders ==
    \A k \in DOMAIN resolutions :
        ~JoinsAbsolute(Remaining(resolutions[k].name)) =>
            NamespaceRule(resolutions[k].name, resolutions[k].result)

\* a Script reference failed although the file its failure names exists, an
\* Engine reference failed without an engine directory, a Game reference
\* resolved
C13_Cases ==
    /\ \E k \in DOMAIN resolutions :
          /\ Namespace(resolutions[k].name) = "Script"
          /\ Exists(resolutions[k].result.path)
    /\ \E k \in DOMAIN resolutions :
          /\ Namespace(resolutions[k].name) = "Engine"
          /\ ~IsSome(asset_dirs.engine_content_dir)
    /\ \E k \in DOMAIN resolutions :
          /\ Namespace(resolutions[k].name) = "Game"
          /\ resolutions[k].result.ok

-----------------------------------------------------------------------------
(* C14: for a reference whose namespace is none of Game, Engine and Script,  *)
(* resolution succeeds if and only if some directory named exactly like the  *)
(* namespace, found under some configured plugin root within walk depth 10   *)
(* and containing a Content subdirectory, has the remaining segments as an   *)
(* existing path below that Content directory; on success the returned path  *)
(* is such a path, and otherwise the result is the 'not found in any plugin  *)
(* directory' failure.                                                       *)

IsPluginNamespace(name) == Namespace(name) \notin { "Game", "Engine", "Script" }

\* the directories named like the namespace that the walk of a plugin root
\* finds and that contain a Content subdirectory
PluginDirsNamed(namespace) ==
    { d \in DOMAIN fs :
        /\ d # << >> /\ Last(d) = namespace
        /\ fs[d] = "dir"
        /\ \E i \in DOMAIN asset_dirs.plugins_dirs :
              /\ IsPrefix(asset_dirs.plugins_dirs[i], d)
              /\ Len(d) - Len(asset_dirs.plugins_dirs[i]) <= 10
        /\ Exists(d \o << "Content" >>) }

\* the existing paths made of such a directory's Content directory and the
\* remaining segments
PluginTargets(name) ==
    { Below(d \o << "Content" >>, name) : d \in PluginDirsNamed(Namespace(name)) }
        \cap DOMAIN fs

PluginRule(name, result) ==
    /\ result.ok = (PluginTargets(name) # { })
    /\ result.ok => result.path \in PluginTargets(name)
    /\ ~result.ok =>
          result.reason = "Couldn't find the asset in any of the plugins directories"

C14_PluginResolution ==
    \A k \in DOMAIN resolutions :
        IsPluginNamespace(resolutions[k].name) =>
            PluginRule(resolutions[k].name, resolutions[k].result)

\* what holds of C14: the rule holds of every plugin reference whose remaining
\* segments do not start with an empty one
C14_PluginResolutionOfRelativeRemainders ==
    \A k \in DOMAIN resolutions :
        ( /\ IsPluginNamespace(resolutions[k].name)
          /\ ~JoinsAbsolute(Remaining(resolutions[k].name)) )
        => PluginRule(resolutions[k].name, resolutions[k].result)

\* one build resolved a plugin reference at the last level of the walk, failed
\* on one whose directory lies a level deeper, and resolved one that two
\* plugin directories hold
C14_Cases ==
    /\ \E k \in DOMAIN resolutions :
          resolutions[k].name = NearZ /\ resolutions[k].result.ok
    /\ \E k \in DOMAIN resolutions :
          resolutions[k].name = DeepZ /\ ~resolutions[k].result.ok
    /\ \E k \in DOMAIN resolutions :
          /\ resolutions[k].result.ok
          /\ Cardinality(PluginTargets(resolutions[k].name)) = 2

-----------------------------------------------------------------------------
(* C15: for every reference r that does not end in .uasset, resolving r and  *)
(* resolving r followed by .uasset give the same result (the same path, or a *)
(* failure with the same path), and a reference that already ends in         *)
(* .uasset is not given a second suffix.                                     *)

HasSuffix(name) == name.lead # "" /\ EndsWithUasset(Last(name.segs))

\* the reference followed by .uasset
WithSuffix(name) == Name(name.lead, Front(name.segs) \o << Last(name.segs) \o UASSET >>)

SameOutcome(r1, r2) == r1.ok = r2.ok /\ r1.path = r2.path

SuffixRule(j, k) ==
    ( /\ ~HasSuffix(resolutions[j].name)
      /\ resolutions[k].name = WithSuffix(resolutions[j].name) )
    => SameOutcome(resolutions[j].result, resolutions[k].result)

NoSecondSuffix(k) ==
    HasSuffix(resolutions[k].name) =>
        Last(resolutions[k].result.path) = Last(resolutions[k].name.segs)

C15_SuffixMakesNoDifference ==
    /\ \A j, k \in DOMAIN resolutions : SuffixRule(j, k)
    /\ \A k \in DOMAIN resolutions : NoSecondSuffix(k)

\* the reference has at most one file it can resolve to
OneTarget(name) == IsPluginNamespace(name) => Cardinality(PluginTargets(name)) <= 1

\* what holds of C15: the claim holds of the references that at most one
\* plugin directory holds
C15_SuffixOfOneTarget ==
    /\ \A j, k \in DOMAIN resolutions :
          OneTarget(resolutions[j].name) => SuffixRule(j, k)
    /\ \A k \in DOMAIN resolutions : NoSecondSuffix(k)

\* one build resolved a reference and the same reference followed by .uasset
\* to a path, and another such pair to a failure
C15_Cases ==
    /\ \E j, k \in DOMAIN resolutions :
          /\ ~HasSuffix(resolutions[j].name)
          /\ resolutions[k].name = WithSuffix(resolutions[j].name)
          /\ resolutions[j].result.ok
    /\ \E j, k \in DOMAIN resolutions :
          /\ ~HasSuffix(resolutions[j].name)
          /\ resolutions[k].name = WithSuffix(resolutions[j].name)
          /\ ~resolutions[j].result.ok

-----------------------------------------------------------------------------
(* C16: resolving the same reference string twice against the same root      *)
(* directories and the same file system gives the same outcome both times:   *)
(* the same failure, or success with the same path, including for a plugin   *)
(* reference for which more than one candidate plugin Content directory      *)
(* contains the target file.                                                 *)

C16_ResolvingTwiceAgrees ==
    \A j, k \in DOMAIN resolutions :
        resolutions[j].name = resolutions[k].name =>
            resolutions[j].result = resolutions[k].result

\* what holds of C16: the two outcomes agree for every reference that at most
\* one plugin directory holds
C16_ResolvingTwiceAgreesOfOneTarget ==
    \A j, k \in DOMAIN resolutions :
        ( /\ resolutions[j].name = resolutions[k].name
          /\ OneTarget(resolutions[j].name) )
        => resolutions[j].result = resolutions[k].result

\* one build resolved the same Game reference twice and the same failing
\* reference twice
C16_Cases ==
    /\ \E j, k \in DOMAIN resolutions :
          /\ j # k
          /\ resolutions[j].name = resolutions[k].name
          /\ resolutions[j].result.ok
    /\ \E j, k \in DOMAIN resolutions :
          /\ j # k
          /\ resolutions[j].name = resolutions[k].name
          /\ ~resolutions[j].result.ok

-----------------------------------------------------------------------------
(* C17: every import reference of an expanded node yields exactly one        *)
(* outcome, a resolved path or a failure record, and none aborts the build:  *)
(* the empty string, a reference without the leading '/', a namespace alone  *)
(* and a reference whose first character is longer than one byte included.   *)
(* The paths and the failures get_dependency_asset_paths returns are as many *)
(* as the imports.                                                           *)

RECURSIVE ImportsOf(_)
\* the import names of the nodes of ids, in order
ImportsOf(ids) ==
    IF ids = << >>
    THEN << >>
    ELSE get_dependency_names(nodes[Head(ids)]) \o ImportsOf(Tail(ids))

\* the build was aborted while the imports of cur_node_id were resolved
\* (asset.rs:146), not by a directory that is not set
AbortedByImport ==
    /\ pc = "panicked"
    /\ IsSome(asset_dirs.asset_file_path)
    /\ IsSome(asset_dirs.content_dir)

\* the outcomes of the expanded nodes are those of their imports, one each and
\* in order
OneOutcomeEach ==
    /\ Len(resolutions) = Len(ImportsOf(resolved_ids))
    /\ \A k \in DOMAIN resolutions : resolutions[k].name = ImportsOf(resolved_ids)[k]

\* every call on an expanded node returns as many paths and failures as the
\* node has imports
CountsAddUp ==
    \A k \in DOMAIN resolved_ids :
        LET asset == nodes[resolved_ids[k]]
        IN  \A got \in get_dependency_asset_paths(asset, asset_dirs) :
                Len(got.left) + Len(got.right) = Len(get_dependency_names(asset))

C17_EveryImportOneOutcome ==
    /\ ~AbortedByImport
    /\ OneOutcomeEach
    /\ CountsAddUp

\* what does hold: the outcomes are one per import, and a build is aborted by
\* an import only if its first character is longer than one byte
C17_OneOutcomeOfOneByteLead ==
    /\ OneOutcomeEach
    /\ CountsAddUp
    /\ AbortedByImport =>
          \E name \in Range(get_dependency_names(nodes[cur_node_id])) :
              Utf8Len(name.lead) > 1

\* the empty string, the name without '/', the namespace alone and the one with
\* an empty remainder were resolved, each to a failure, and the build went on
C17_Cases ==
    /\ Returned
    /\ \A name \in { EmptyName, NoSlashGameA, GameOnly, GameSlash } :
          \E k \in DOMAIN resolutions :
              /\ resolutions[k].name = name
              /\ ~resolutions[k].result.ok
    /\ Cardinality(Tree.failures) >= 4
    /\ Cardinality(DOMAIN Tree.nodes) = 2

-----------------------------------------------------------------------------
(* C18: Asset::new classifies a path as engine iff some ancestor segment     *)
(* named Engine contains a Content subdirectory, and as plugin iff some      *)
(* ancestor segment named Plugins exists as a directory; the origin is       *)
(* EnginePlugin, Engine, ProjectPlugin, Project for (engine, plugin) =       *)
(* (true, true), (true, false), (false, true), (false, false).  This holds   *)
(* for every path, also one with several segments named Engine or Plugins.   *)

IsDir(path) == Exists(path) /\ fs[path] = "dir"

\* the ancestors of path whose last segment is named name
AncestorsNamed(path, name) ==
    { SubSeq(path, 1, i) : i \in { j \in 1..(Len(path) - 1) : path[j] = name } }

SomeEngineHoldsContent(path) ==
    \E dir \in AncestorsNamed(path, "Engine") : IsDir(dir \o << "Content" >>)

SomePluginsExists(path) ==
    \E dir \in AncestorsNamed(path, "Plugins") : IsDir(dir)

OriginByAncestors(path) ==
    CASE SomeEngineHoldsContent(path) /\ SomePluginsExists(path)  -> "EnginePlugin"
      [] SomeEngineHoldsContent(path) /\ ~SomePluginsExists(path) -> "Engine"
      [] ~SomeEngineHoldsContent(path) /\ SomePluginsExists(path) -> "ProjectPlugin"
      [] OTHER                                                     -> "Project"

\* the assets Asset::new has constructed in this build
AssetsConstructed == Range(nodes) \cup Range(unresolved_nodes)

C18_OriginByAncestors ==
    \A asset \in AssetsConstructed : asset.origin = OriginByAncestors(asset.path)

\* what does hold: the rule decides by the first segment named Engine alone
C18_OriginByFirstEngine ==
    \A asset \in AssetsConstructed :
        Cardinality(AncestorsNamed(asset.path, "Engine")) <= 1
            => asset.origin = OriginByAncestors(asset.path)

\* a graph with an asset of each of the four origins
C18_Cases ==
    /\ Returned
    /\ { Tree.nodes[id].origin : id \in DOMAIN Tree.nodes }
           = { "EnginePlugin", "Engine", "ProjectPlugin", "Project" }

-----------------------------------------------------------------------------
(* C19: when builds run one after the other and never overlap, in every      *)
(* build the root gets Node ID 0 and the ids of the n nodes of the returned  *)
(* graph are exactly 0..n-1, each assigned once and in creation order; also  *)
(* in a build that follows an earlier one, whether that succeeded or failed. *)

RECURSIVE ChildrenInOrder(_)
\* the children pushed for the nodes of ids, in the order of the pushes
ChildrenInOrder(ids) ==
    IF ids = << >>
    THEN << >>
    ELSE (IF Head(ids) \in DOMAIN node_connections
          THEN node_connections[Head(ids)]
          ELSE << >>)
         \o ChildrenInOrder(Tail(ids))

\* the ids of this build in the order they were handed out: the root's, then
\* those of the children of each expanded node
CreationOrder == << root_node_id >> \o ChildrenInOrder(resolved_ids)

\* 0, 1, .., n - 1
Iota(n) == [ i \in 1..n |-> i - 1 ]

C19_SequentialIds ==
    /\ \A tree \in Graphs :
          /\ tree.root_node_id = 0
          /\ DOMAIN tree.nodes = 0..(Cardinality(DOMAIN tree.nodes) - 1)
    /\ nodes # << >> =>
          /\ root_node_id = 0
          /\ DOMAIN nodes = 0..(Cardinality(DOMAIN nodes) - 1)
          /\ CreationOrder = Iota(Cardinality(DOMAIN nodes))

\* a second build has returned a graph of three nodes or more, after a first
\* one that did so too and left the counter at three or more
C19_Witness ==
    /\ Len(returned) = 2
    /\ returned[1].ok
    /\ returned[2].ok
    /\ Cardinality(DOMAIN returned[1].tree.nodes) >= 3
    /\ Cardinality(DOMAIN returned[2].tree.nodes) >= 3

\* a second build has returned a graph of three nodes or more after a first
\* one that failed
C19_AfterFailure ==
    /\ Len(returned) = 2
    /\ ~returned[1].ok
    /\ returned[2].ok
    /\ Cardinality(DOMAIN returned[2].tree.nodes) >= 3

-----------------------------------------------------------------------------
(* C20: when the steps of two builds interleave on the process-wide counter  *)
(* (a reset_id or a new_id of one between two new_id of the other), a state  *)
(* is reachable in which a build receives a Node ID that is already a key of *)
(* its own node table: ids are no longer unique within the build.  Stated as *)
(* an invariant: an id is received twice only after an operation of the      *)
(* other build; the state where one is received twice is C20_Witness.        *)

\* where the ids this build received for its children are recorded: the
\* positions of the children lists (line 159 pushes every id it receives)
Received ==
    UNION { { << p, i >> : i \in DOMAIN node_connections[p] } :
              p \in DOMAIN node_connections }

IdAt(pos) == node_connections[pos[1]][pos[2]]

\* the build received an id it had received before: the root's, or that of an
\* earlier child
RepeatedId ==
    \/ \E pos \in Received : IdAt(pos) = root_node_id
    \/ \E pos1, pos2 \in Received : pos1 # pos2 /\ IdAt(pos1) = IdAt(pos2)

C20_RepeatedIdOnlyWhenInterleaved ==
    nodes # << >> /\ RepeatedId => interleaved > 0

\* the build has returned a graph for which it received more ids than the
\* node table has keys: an entry of the table was replaced
C20_Witness ==
    /\ Returned
    /\ interleaved > 0
    /\ RepeatedId
    /\ Cardinality(DOMAIN Tree.nodes) < 1 + Cardinality(Received)

-----------------------------------------------------------------------------
(* C21: progress reporting does not affect the result: for the same inputs,  *)
(* build called with a progress bar and build called without one perform the *)
(* same sequence of frontier pops and return the same node table, adjacency  *)
(* table, depth table and failures.  The inputs do not fix the results of    *)
(* the resolutions (a HashSet decides between two plugin directories), so    *)
(* the two calls are compared where their resolutions fell the same way; of  *)
(* the failures a hash collision may drop a record of an equal path, so they *)
(* are compared by path, and as sets where every record produced was kept.   *)

\* the calls of build that returned a graph
Calls == { k \in DOMAIN returned : returned[k].ok }

\* the failure records the resolutions of a call produced
FailuresResolved(call) ==
    { ErrorOf(call.resolutions[k].result) :
        k \in { j \in DOMAIN call.resolutions : ~call.resolutions[j].result.ok } }

\* no record of the call's failures was dropped for one of an equal path
KeptEveryRecord(call) == FailuresResolved(call) \subseteq call.tree.failures

SameRun(c1, c2) ==
    /\ c1.popped = c2.popped
    /\ c1.tree.nodes = c2.tree.nodes
    /\ c1.tree.node_connections = c2.tree.node_connections
    /\ c1.tree.recurse_depths = c2.tree.recurse_depths
    /\ FailurePaths(c1.tree) = FailurePaths(c2.tree)
    /\ KeptEveryRecord(c1) /\ KeptEveryRecord(c2) => c1.tree.failures = c2.tree.failures

-----------------------------------------------------------------------------
(* C22: in the returned graph get_parent_node_id(root) is None, and for      *)
(* every other node n get_parent_node_id(n) returns the one node whose       *)
(* children list contains n; no node id is in the children lists of two      *)
(* different nodes, so the answer does not depend on the iteration order of  *)
(* the adjacency table.                                                      *)

\* the nodes whose children list contains id
ParentsOf(tree, id) ==
    { p \in DOMAIN tree.node_connections : id \in Range(tree.node_connections[p]) }

C22_OneParent ==
    \A tree \in Graphs :
        /\ get_parent_node_id(tree, tree.root_node_id) = { None }
        /\ \A id \in DOMAIN tree.nodes \ { tree.root_node_id } :
              /\ Cardinality(ParentsOf(tree, id)) = 1
              /\ get_parent_node_id(tree, id) = { Some(p) : p \in ParentsOf(tree, id) }
        /\ \A p, q \in DOMAIN tree.node_connections :
              p # q => Range(tree.node_connections[p]) \cap Range(tree.node_connections[q]) = { }

\* a graph in which three nodes have children, one of them two or more
C22_Witness ==
    /\ Returned
    /\ Cardinality(DOMAIN Tree.node_connections) >= 3
    /\ \E p \in DOMAIN Tree.node_connections : Len(Tree.node_connections[p]) >= 2

-----------------------------------------------------------------------------
(* C23: on a finished graph the queries are total and read-only: for an id   *)
(* that is not in the node table get_node and get_recurse_depth return None, *)
(* get_node_connections returns the empty list and get_parent_node_id        *)
(* returns None; for a node with no recorded children get_node_connections   *)
(* returns the empty list; no query changes any table of the graph.          *)

\* the answer to the last query is the one the claim gives
AnswerAsClaimed ==
    LET absent == answer.id \notin DOMAIN Tree.nodes
    IN  /\ (answer.query \in { "get_node", "get_recurse_depth", "get_parent_node_id" }
              /\ absent) => answer.result = None
        /\ (answer.query = "get_node_connections"
              /\ (absent \/ answer.id \notin DOMAIN Tree.node_connections))
           => answer.result = << >>
        /\ (answer.query = "get_node" /\ ~absent)
           => answer.result = Some(Tree.nodes[answer.id])
        /\ (answer.query = "get_recurse_depth" /\ ~absent)
           => answer.result = Some(Tree.recurse_depths[answer.id])

\* a step on a finished graph, which is the answer to a query, leaves the
\* graph and the tables as they were
QueryReadsOnly ==
    (pc = "done" /\ pc' = "done") =>
        UNCHANGED << returned, nodes, node_connections, recurse_depths, failures,
                     known_paths, root_node_id >>

C23_QueriesTotalReadOnly ==
    /\ [](answer.query # "none" => AnswerAsClaimed)
    /\ [][QueryReadsOnly]_vars

\* get_recurse_depth was asked for an id that no node of a graph of three
\* nodes or more has, and answered None
C23_Witness ==
    /\ answer.query = "get_recurse_depth"
    /\ answer.id \notin DOMAIN Tree.nodes
    /\ answer.result = None
    /\ Cardinality(DOMAIN Tree.nodes) >= 3

\* get_node_connections was asked for a node without children
C23_LeafAsked ==
    /\ answer.query = "get_node_connections"
    /\ answer.id \in DOMAIN Tree.nodes
    /\ answer.id \notin DOMAIN Tree.node_connections
    /\ answer.result = << >>
    /\ Tree.node_connections # << >>

-----------------------------------------------------------------------------
(* C24: a reference that fails to resolve, or whose resolved path fails node *)
(* construction (not a regular file, no .uasset extension, unparsable        *)
(* header), produces no node: in the returned graph no path is both the path *)
(* of a node and the path of a failure record, and every node's path is a    *)
(* regular .uasset file whose header parsed.                                 *)

\* a regular file with the .uasset extension whose header parses
ReadableAsset(path) ==
    /\ Exists(path)
    /\ fs[path] = "file"
    /\ HasUassetExtension(path)

NodesAreReadableAssets(tree) ==
    \A id \in DOMAIN tree.nodes : ReadableAsset(tree.nodes[id].path)

C24_FailureProducesNoNode ==
    \A tree \in Graphs :
        /\ NodePaths(tree) \cap FailurePaths(tree) = { }
        /\ NodesAreReadableAssets(tree)

\* the failure records whose path is the path the reference resolved to: the
\* reasons of lines 163 and 175 and those of Asset::new
CarriesResolvedPath(fail) ==
    fail.reason \in { "The asset doesn't exist in the game content directory",
                      "The asset doesn't exist in the engine content directory",
                      "File does not exist or is not a .uasset file",
                      "Failed to read asset", "Could not find asset" }

\* what does hold: every node is a readable asset, and no node has the path
\* of a failure record that carries a resolved path
C24_ResolvedFailureProducesNoNode ==
    \A tree \in Graphs :
        /\ NodesAreReadableAssets(tree)
        /\ \A fail \in tree.failures :
              CarriesResolvedPath(fail) => fail.path \notin NodePaths(tree)

\* a graph with a failure of each kind: a missing file, a directory or a file
\* whose header does not parse, a name that does not resolve
C24_Cases ==
    /\ Returned
    /\ \E fail \in Tree.failures :
          fail.reason = "The asset doesn't exist in the game content directory"
    /\ \E fail \in Tree.failures :
          fail.reason \in { "File does not exist or is not a .uasset file",
                            "Failed to read asset" }
    /\ \E fail \in Tree.failures : ~CarriesResolvedPath(fail)
    /\ Cardinality(DOMAIN Tree.nodes) >= 2

-----------------------------------------------------------------------------
(* C25: within one build node construction (Asset::new) is attempted at most *)
(* once per distinct resolved path: a path that already has a node or        *)
(* already has a failure record is not constructed again when a later        *)
(* expanded node references it.                                              *)

\* the paths Asset::new was called with in this build: the root's (line 56),
\* then those of the dependencies (line 131)
Constructions ==
    IF nodes = << >> THEN << >> ELSE << nodes[root_node_id].path >> \o constructed

C25_ConstructedOncePerPath ==
    \A i, j \in DOMAIN Constructions :
        Constructions[i] = Constructions[j] => i = j

\* what does hold: the paths constructed for a node are none of the paths
\* that had a node or a failure record when the node was popped
C25_NotConstructedAgainLater ==
    [][ \A k \in DOMAIN constructed' :
            k > Len(constructed) =>
                /\ constructed'[k] \notin known_paths
                /\ constructed'[k] \notin { fail.path : fail \in failures } ]_vars

\* a path that has a node and one that has a failure record were referenced
\* again by a node expanded later
C25_Cases ==
    /\ Returned
    /\ \E j, k \in DOMAIN resolutions :
          /\ j < k
          /\ resolutions[j].result.ok /\ resolutions[k].result.ok
          /\ resolutions[j].result.path = resolutions[k].result.path
          /\ resolutions[j].result.path \in NodePaths(Tree) \cup FailurePaths(Tree)
          /\ Cardinality({ i \in DOMAIN constructed :
                             constructed[i] = resolutions[j].result.path }) = 1

-----------------------------------------------------------------------------
(* C26: during a build the node table, the known-paths set, the failure set  *)
(* and the depth table only grow: in every step each existing node keeps its *)
(* id, path, origin and recorded depth, each recorded children list only     *)
(* gets new ids appended at its end, and nothing is removed.                 *)

\* the table after the step holds every entry of the table before it
Extends(after, before) ==
    /\ DOMAIN before \subseteq DOMAIN after
    /\ \A key \in DOMAIN before : after[key] = before[key]

OnlyGrows ==
    /\ Extends(nodes', nodes)
    /\ Extends(recurse_depths', recurse_depths)
    /\ known_paths \subseteq known_paths'
    /\ failures \subseteq failures'
    /\ DOMAIN node_connections \subseteq DOMAIN node_connections'
    /\ \A parent \in DOMAIN node_connections :
          IsPrefix(node_connections[parent], node_connections'[parent])

C26_TablesOnlyGrow == [][OnlyGrows]_vars

\* in the middle of nodes.extend: a node has two children or more, failures
\* were recorded and the frontier is not empty
C26_Witness ==
    /\ pc = "insert"
    /\ Cardinality(DOMAIN nodes) >= 4
    /\ \E parent \in DOMAIN node_connections : Len(node_connections[parent]) >= 2
    /\ failures # { }
    /\ unresolved_nodes_ids # << >>

-----------------------------------------------------------------------------
(* C27: every asset that can be reached from the root by a chain of at most  *)
(* max_recurse_depth successfully resolving and constructing references is a *)
(* node of the returned graph.                                               *)

\* the results of the import name in this build: those its resolutions had,
\* or, if it was not resolved, those it can have
ResultsInBuild(name) ==
    LET had == { resolutions[k].result :
                   k \in { j \in DOMAIN resolutions : resolutions[j].name = name } }
    IN  IF had # { } THEN had
        ELSE IF Resolvable(name) THEN ResolveDep(name, asset_dirs) ELSE { }

\* the assets the imports of the asset at path resolve to and construct as
TargetsInBuild(path) ==
    { r.path : r \in { q \in UNION { ResultsInBuild(name) :
                                       name \in Range(get_dependency_names([ path |-> path ])) } :
                         q.ok /\ AssetNew(q.path).ok } }

RECURSIVE WithinChain(_, _)
\* the assets a chain of at most k references reaches from the paths of seen
WithinChain(seen, k) ==
    LET next == seen \cup UNION { TargetsInBuild(p) : p \in seen }
    IN  IF k = 0 \/ next = seen THEN seen ELSE WithinChain(next, k - 1)

\* the assets within max_recurse_depth references of the root
WithinDepth == WithinChain({ Unwrap(asset_dirs.asset_file_path) }, max_recurse_depth)

C27_ReachableWithinDepthIsNode ==
    Returned => WithinDepth \subseteq NodePaths(Tree)

\* what does hold: the assets within max_recurse_depth references are nodes
\* when no node of the graph is at the depth bound, no failure record has the
\* path of a readable asset and every import name has one result
C27_ReachableBelowDepthBoundIsNode ==
    ( /\ Returned
      /\ BelowDepthBound(Tree)
      /\ NoFailureAtAssetPath(Tree)
      /\ OneResultEach(Tree) )
    => WithinDepth \subseteq NodePaths(Tree)

\* a graph of five nodes or more, none at the depth bound, one of them three
\* references from the root
C27_Cases ==
    /\ Returned
    /\ BelowDepthBound(Tree)
    /\ Cardinality(DOMAIN Tree.nodes) >= 5
    /\ \E id \in DOMAIN Tree.nodes : Tree.recurse_depths[id] >= 3
    /\ WithinDepth = NodePaths(Tree)

-----------------------------------------------------------------------------
(* C28: in the returned graph the adjacency table is a tree that spans the   *)
(* node table: every node is reachable from the root by following children   *)
(* lists, no node is reachable from itself, the root is in no children list, *)
(* and the total number of recorded child entries equals the number of nodes *)
(* minus one.                                                                *)

\* the ids in the children list of id
ChildrenOf(tree, id) == Range(get_node_connections(tree, id))

RECURSIVE Descendants(_, _, _)
\* the ids reached from the ids of from by one step or more along children
\* lists, added to found
Descendants(tree, from, found) ==
    LET next == UNION { ChildrenOf(tree, id) : id \in from } \ found
    IN  IF next = { } THEN found ELSE Descendants(tree, next, found \cup next)

RECURSIVE SumOfLengths(_, _)
\* the number of entries of the children lists of the keys
SumOfLengths(tree, keys) ==
    IF keys = { }
    THEN 0
    ELSE LET key == CHOOSE k \in keys : TRUE
         IN  Len(tree.node_connections[key]) + SumOfLengths(tree, keys \ { key })

SpanningTree(tree) ==
    /\ { tree.root_node_id } \cup Descendants(tree, { tree.root_node_id }, { })
           = DOMAIN tree.nodes
    /\ \A id \in DOMAIN tree.nodes : id \notin Descendants(tree, { id }, { })
    /\ \A parent \in DOMAIN tree.node_connections :
          tree.root_node_id \notin Range(tree.node_connections[parent])
    /\ SumOfLengths(tree, DOMAIN tree.node_connections)
           = Cardinality(DOMAIN tree.nodes) - 1

C28_AdjacencyIsSpanningTree == \A tree \in Graphs : SpanningTree(tree)

\* a graph of five nodes or more, three levels deep, whose assets reference
\* one another in a cycle or twice
C28_Witness ==
    /\ Returned
    /\ Cardinality(DOMAIN Tree.nodes) >= 5
    /\ \E id \in DOMAIN Tree.nodes : Tree.recurse_depths[id] >= 3
    /\ \E j, k \in DOMAIN resolutions :
          /\ j < k
          /\ resolutions[j].result.ok
          /\ resolutions[j].result = resolutions[k].result

-----------------------------------------------------------------------------
(* C29: in every state of the build loop every id in the frontier is a key   *)
(* of the node table with a recorded depth; each node id is pushed onto the  *)
(* frontier exactly once and popped at most once, so every node is expanded  *)
(* at most once; and the frontier is never longer than the node table, so    *)
(* the progress position (node count minus frontier length) never goes below *)
(* zero and never exceeds the progress length.                               *)

\* the loop of lines 78-171 is running (line 69 skips it for a bound of 0)
InLoop == pc \in { "loop", "insert" } /\ max_recurse_depth > 0

\* the ids pushed so far, in the order of their pops, then those waiting
PushedIds == popped \o unresolved_nodes_ids

NoRepeats(s) == \A i, j \in DOMAIN s : s[i] = s[j] => i = j

C29_FrontierWithinNodeTable ==
    /\ InLoop =>
          /\ \A i \in DOMAIN unresolved_nodes_ids :
                /\ unresolved_nodes_ids[i] \in DOMAIN nodes
                /\ unresolved_nodes_ids[i] \in DOMAIN recurse_depths
          /\ Range(PushedIds) = DOMAIN nodes
          /\ NoRepeats(PushedIds)
          /\ NoRepeats(resolved_ids)
          /\ Len(unresolved_nodes_ids) <= Cardinality(DOMAIN nodes)
    /\ pc # "overflowed"
    /\ IsSome(pb) =>
          /\ ~Unwrap(pb).position.wrapped
          /\ Unwrap(pb).position.value <= Unwrap(pb).length

\* in the loop: five nodes or more, some popped, some waiting, and the bar
\* set to a position above zero and below its length
C29_Witness ==
    /\ InLoop
    /\ Cardinality(DOMAIN nodes) >= 5
    /\ Len(popped) >= 3
    /\ Len(unresolved_nodes_ids) >= 2
    /\ IsSome(pb)
    /\ Unwrap(pb).position.value > 0
    /\ Unwrap(pb).position.value < Unwrap(pb).length

-----------------------------------------------------------------------------
(* C30: after AssetDirs::new and after any sequence of update_asset_file and *)
(* update_engine_dir calls, engine_dir, when set, ends with a segment named  *)
(* Engine; engine_content_dir is engine_dir/Content (both set or both        *)
(* unset); content_dir is project_dir/Content (both set or both unset); and  *)
(* plugins_dirs is exactly project_dir/Plugins (if project_dir is set)       *)
(* followed by engine_dir/Plugins (if engine_dir is set).                    *)

\* child is dir/name, both set or both unset
ChildOf(dir, child, name) ==
    /\ IsSome(dir) <=> IsSome(child)
    /\ IsSome(dir) => Unwrap(child) = Unwrap(dir) \o << name >>

PluginsOf(dirs) ==
    (IF IsSome(dirs.project_dir)
     THEN << Unwrap(dirs.project_dir) \o << "Plugins" >> >> ELSE << >>)
    \o (IF IsSome(dirs.engine_dir)
        THEN << Unwrap(dirs.engine_dir) \o << "Plugins" >> >> ELSE << >>)

C30_DirsConsistent ==
    /\ IsSome(asset_dirs.engine_dir) =>
          /\ Unwrap(asset_dirs.engine_dir) # << >>
          /\ Last(Unwrap(asset_dirs.engine_dir)) = "Engine"
    /\ ChildOf(asset_dirs.engine_dir, asset_dirs.engine_content_dir, "Content")
    /\ ChildOf(asset_dirs.project_dir, asset_dirs.content_dir, "Content")
    /\ asset_dirs.plugins_dirs = PluginsOf(asset_dirs)

\* a project asset is held while the engine directory was set to a directory
\* that did not end with Engine, after a build that ran with other directories
C30_Witness ==
    /\ pc = "done"
    /\ asset_dirs.project_dir = Some(<< "/", "P" >>)
    /\ asset_dirs.engine_dir = Some(<< "/", "W", "Engine" >>)
    /\ Len(asset_dirs.plugins_dirs) = 2
    /\ \E i \in DOMAIN returned :
          /\ returned[i].ok
          /\ \E id \in DOMAIN returned[i].tree.nodes :
                returned[i].tree.nodes[id].origin = "Engine"

====
